---- MODULE Spec2Model ----
(***************************************************************************)
(* Model of the scoring and binning engine of Bati-Bank-Credit-Scoring:    *)
(*   scripts/woe_binner.py          class WOE_Binner                       *)
(*   scripts/credit_risk_modeler.py class CreditScoreEngine                *)
(*                                                                         *)
(* A pandas DataFrame is a record [columns, dtype, data]: the ordered      *)
(* column names, the dtype of each column and the cells of each column.    *)
(* Two DataFrame objects matter to WOE_Binner: the one the caller passed   *)
(* to the constructor (callerTable) and the one DataFrame.drop creates     *)
(* (ownTable); self.data refers to one of them.                            *)
(*                                                                         *)
(* Reals are kept exact: a quantile with denominator d is kept multiplied  *)
(* by d, a ratio is kept as a numerator/denominator pair.                  *)
(***************************************************************************)
EXTENDS Integers, Sequences, FiniteSets, TLC

VARIABLES
    callerTable,   \* the DataFrame object the caller passed to WOE_Binner(...)
    origTable,     \* its content right after construction (never written afterwards)
    ownTable,      \* the DataFrame object made by self.data.drop(...), or NoTable
    self,          \* the WOE_Binner instance: data (a reference), target, column lists
    numBins,       \* the caller's last bin_numerical_cols result, or NoResult
    catBins,       \* the caller's last bin_categorical_cols result, or NoResult
    counts,        \* the caller's last obtain_counts result, or NoResult
    stats,         \* the caller's last calculate_woe / bad_probability / IV results
    call,          \* the last call: [op, args, outcome]
    txns,          \* CreditScoreEngine.data: the transaction table
    rfms,          \* the RFMS table (result of calcualte_rfms, argument of score_rfms)
    scored,        \* the scored table (result of score_rfms)
    labelIn,       \* the DataFrame object passed to label_rfms_score
    labelOut,      \* what label_rfms_score returned: the table reference and boundary
    recency,       \* what calculate_recency returned, per reference time passed
    threads        \* the obtain_counts calls in progress on the instance, per thread

vars == <<callerTable, origTable, ownTable, self, numBins, catBins, counts, stats,
          call, txns, rfms, scored, labelIn, labelOut, recency, threads>>

engineVars == <<txns, rfms, scored, labelIn, labelOut, recency>>

binnerVars == <<callerTable, origTable, ownTable, self, numBins, catBins, counts,
                threads>>

----------------------------------------------------------------------------
(* Bounds of the model *)

MaxRows == 2        \* rows of the feature table
MaxVal == 2         \* numeric cells are 0..MaxVal

----------------------------------------------------------------------------
(* Generic helpers *)

NoTable == [columns |-> <<>>, dtype |-> <<>>, data |-> <<>>]
NoResult == [NoResult |-> TRUE]   \* a dict no call returns
NoStats == [woe |-> NoResult, bad_prob |-> NoResult, iv |-> NoResult, plot |-> NoResult]

Range(s) == {s[i] : i \in DOMAIN s}

SeqsUpTo(S, n) == UNION {[1..k -> S] : k \in 1..n}

RECURSIVE SumSeq(_)
SumSeq(s) == IF s = <<>> THEN 0 ELSE Head(s) + SumSeq(Tail(s))

\* the sum of f[x] over the x in S (f a function)
RECURSIVE SumOver(_, _)
SumOver(f, S) ==
    IF S = {} THEN 0
    ELSE LET x == CHOOSE y \in S : TRUE IN f[x] + SumOver(f, S \ {x})

SetMin(S) == CHOOSE x \in S : \A y \in S : x <= y
SetMax(S) == CHOOSE x \in S : \A y \in S : y <= x

IntLE(a, b) == a <= b

\* Series.unique(): the distinct values in order of first appearance
RECURSIVE Unique(_)
Unique(s) ==
    IF s = <<>> THEN <<>>
    ELSE LET r == Unique(SubSeq(s, 1, Len(s) - 1))
             v == s[Len(s)]
         IN IF v \in Range(r) THEN r ELSE Append(r, v)

----------------------------------------------------------------------------
(* DataFrame operations used by WOE_Binner *)

NRows(df) == IF df.columns = <<>> THEN 0 ELSE Len(df.data[df.columns[1]])

HasColumn(df, c) == c \in Range(df.columns)

\* df[c] = values : overwrites the column in place, or appends it
SetColumn(df, c, kind, values) ==
    IF HasColumn(df, c)
    THEN [df EXCEPT !.dtype[c] = kind, !.data[c] = values]
    ELSE [columns |-> Append(df.columns, c),
          dtype   |-> (c :> kind) @@ df.dtype,
          data    |-> (c :> values) @@ df.data]

\* df.drop(columns=[c]) : a NEW DataFrame without c (KeyError is the caller's guard)
DropColumn(df, c) ==
    LET Keep(k) == k # c
        cols == SelectSeq(df.columns, Keep)
    IN [columns |-> cols,
        dtype   |-> [k \in Range(cols) |-> df.dtype[k]],
        data    |-> [k \in Range(cols) |-> df.data[k]]]

IntDtype == [kind |-> "int64"]
ObjDtype == [kind |-> "object"]
CatDtype(categories) == [kind |-> "category", categories |-> categories]

\* DataFrame._get_numeric_data().columns
NumericDtypeColumns(df) ==
    LET IsNum(c) == df.dtype[c].kind = "int64" IN SelectSeq(df.columns, IsNum)

\* DataFrame.select_dtypes(include=['object', 'category']).columns.tolist()
ObjectDtypeColumns(df) ==
    LET IsObj(c) == df.dtype[c].kind \in {"object", "category"}
    IN SelectSeq(df.columns, IsObj)

----------------------------------------------------------------------------
(* Quantiles and pandas.qcut *)

NaN == <<>>           \* the missing value of a binned cell
QBins == 5            \* woe_binner.py:49  q=5 (the n_bins argument is not used)

\* d times the (k/d)-quantile of the sorted sequence s, linear interpolation
\* (Series.quantile): position k(n-1)/d, between s[lo+1] and s[lo+2].
QuantileScaled(s, k, d) ==
    LET p  == k * (Len(s) - 1)
        lo == p \div d
        r  == p % d
    IN IF r = 0 THEN d * s[lo + 1]
       ELSE d * s[lo + 1] + (s[lo + 2] - s[lo + 1]) * r

\* the sorted sequence of the members of a finite set of integers
RECURSIVE SortedSeqOf(_)
SortedSeqOf(S) ==
    IF S = {} THEN <<>>
    ELSE LET m == SetMin(S) IN <<m>> \o SortedSeqOf(S \ {m})

\* the unique quantile edges (times q) that qcut keeps with duplicates='drop'
QcutEdges(values, qs, d) ==
    LET s == SortSeq(values, IntLE)
    IN SortedSeqOf({QuantileScaled(s, k, d) : k \in qs})

\* the interval (edges[i], edges[i+1]] as a pair of scaled edges
Interval(edges, i) == <<edges[i], edges[i + 1]>>

\* _bins_to_cuts with right=True, include_lowest=True: searchsorted(side='left')
\* counts the edges below the value, the lowest value goes to the first bin,
\* and an id of 0 or of len(edges) is a missing cell.
CutId(edges, v, d) ==
    LET below == Cardinality({i \in DOMAIN edges : edges[i] < d * v})
    IN IF d * v = edges[1] THEN 1 ELSE below

CutCell(edges, v, d) ==
    LET id == CutId(edges, v, d)
    IN IF id = 0 \/ id = Len(edges) THEN NaN ELSE Interval(edges, id)

\* pandas.qcut(x, q=QBins, duplicates='drop'): a categorical Series
Qcut(values) ==
    LET edges == QcutEdges(values, 0..QBins, QBins)
    IN [values     |-> [i \in DOMAIN values |-> CutCell(edges, values[i], QBins)],
        categories |-> [i \in 1..(Len(edges) - 1) |-> Interval(edges, i)]]

----------------------------------------------------------------------------
(* groupby(by)[target].value_counts().unstack(fill_value=0).to_dict('index') *)

\* Rows whose grouping cell is missing are dropped; a categorical grouper keeps
\* every category (observed=False), another grouper its observed values; the
\* inner keys are the target values that occur in the kept rows.
GroupCounts(df, by, target) ==
    LET rows == IF df.dtype[by].kind = "category"
                THEN {i \in 1..NRows(df) : df.data[by][i] # NaN}
                ELSE 1..NRows(df)
        keys == IF df.dtype[by].kind = "category"
                THEN IF rows = {} THEN {} ELSE Range(df.dtype[by].categories)
                ELSE {df.data[by][i] : i \in rows}
        tvs  == {df.data[target][i] : i \in rows}
    IN [b \in keys |->
          [v \in tvs |-> Cardinality({i \in rows : df.data[by][i] = b
                                                 /\ df.data[target][i] = v})]]

----------------------------------------------------------------------------
(* WOE, bad probability and Information Value (pure functions of a counts  *)
(* dict {column: {bin: {target value: count}}})                            *)

\* a rational number num/den
Rat(num, den) == [num |-> num, den |-> den]
RatPositive(r) == (r.num > 0 /\ r.den > 0) \/ (r.num < 0 /\ r.den < 0)
RatSub(a, b) == Rat(a.num * b.den - b.num * a.den, a.den * b.den)

\* bin_counts.get(key, 0)
GetOrZero(bin_counts, key) ==
    IF key \in DOMAIN bin_counts THEN bin_counts[key] ELSE 0

\* sum(bins[bin].get(key, 0) for bin in bins)
TotalOf(bins, key) ==
    SumOver([b \in DOMAIN bins |-> GetOrZero(bins[b], key)], DOMAIN bins)

\* the ratio without the +0.5 smoothing
SmoothedRatio_Unsmoothed(count, total) == Rat(count, total)

\* (count + 0.5) / (total + 0.5), written (2 count + 1) / (2 total + 1)
SmoothedRatio(count, total) == Rat(2 * count + 1, 2 * total + 1)

\* the WOE of one bin: ln(good_ratio / bad_ratio) kept as the ratio under the
\* logarithm, or the zero-guard fallback woe = 0 (kept as ln(1/1))
WoeOfBin(good_ratio, bad_ratio) ==
    IF RatPositive(good_ratio) /\ RatPositive(bad_ratio)
    THEN [zero_guard |-> FALSE,
          ln_of      |-> Rat(good_ratio.num * bad_ratio.den, good_ratio.den * bad_ratio.num)]
    ELSE [zero_guard |-> TRUE, ln_of |-> Rat(1, 1)]

\* WOE_Binner.calculate_woe(counts)
calculate_woe(cnts) ==
    [column \in DOMAIN cnts |->
       LET bins       == cnts[column]
           total_good == TotalOf(bins, "Good")
           total_bad  == TotalOf(bins, "Bad")
       IN [b \in DOMAIN bins |->
             WoeOfBin(SmoothedRatio(GetOrZero(bins[b], "Good"), total_good),
                      SmoothedRatio(GetOrZero(bins[b], "Bad"), total_bad))]]

\* sum(bin_counts.values())
TotalCount(bin_counts) == SumOver(bin_counts, DOMAIN bin_counts)

\* bad_probability divides bin_counts.get('Bad'), which is None without the key
BadProbabilityRaises(cnts) ==
    \E column \in DOMAIN cnts : \E b \in DOMAIN cnts[column] :
        /\ "Bad" \notin DOMAIN cnts[column][b]
        /\ TotalCount(cnts[column][b]) > 0

\* WOE_Binner.bad_probability(counts), where it does not raise
bad_probability(cnts) ==
    [column \in DOMAIN cnts |->
       [b \in DOMAIN cnts[column] |->
          LET bin_counts == cnts[column][b]
          IN IF TotalCount(bin_counts) > 0
             THEN Rat(bin_counts["Bad"], TotalCount(bin_counts))
             ELSE Rat(0, 1)]]

\* woe_values[column].get(bin_label, 0): the value 0 = ln(1/1), no guard taken
WoeDefault == [zero_guard |-> FALSE, ln_of |-> Rat(1, 1)]

\* calculate_iv_from_bins indexes bin_counts['Good'] and bin_counts['Bad'],
\* and woe_values[column]
IvRaises(cnts, woe_values) ==
    \/ \E column \in DOMAIN cnts : \E b \in DOMAIN cnts[column] :
          ~({"Good", "Bad"} \subseteq DOMAIN cnts[column][b])
    \/ \E column \in DOMAIN cnts : column \notin DOMAIN woe_values

\* the share taken with the smoothing of calculate_woe
Share_Smoothed(count, total) == Rat(2 * count + 1, 2 * total + 1)

\* good / total_good if total_good > 0 else 0
Share(count, total) == IF total > 0 THEN Rat(count, total) ELSE Rat(0, 1)

\* WOE_Binner.calculate_iv_from_bins(counts, woe_values), where it does not
\* raise.  The IV of a column is the sum of its terms share_diff * woe; the
\* terms are kept, the logarithm is not evaluated.
calculate_iv_from_bins(cnts, woe_values) ==
    [column \in DOMAIN cnts |->
       LET bins       == cnts[column]
           total_good == SumOver([b \in DOMAIN bins |-> bins[b]["Good"]], DOMAIN bins)
           total_bad  == SumOver([b \in DOMAIN bins |-> bins[b]["Bad"]], DOMAIN bins)
       IN [b \in DOMAIN bins |->
             [share_diff |-> RatSub(Share(bins[b]["Good"], total_good),
                                    Share(bins[b]["Bad"], total_bad)),
              woe        |-> IF b \in DOMAIN woe_values[column]
                             THEN woe_values[column][b]
                             ELSE WoeDefault]]]

----------------------------------------------------------------------------
(* class WOE_Binner *)

SelfData == IF self.data = "caller" THEN callerTable ELSE ownTable

\* WOE_Binner.obtain_numerical_cols
obtain_numerical_cols(df, target) ==
    LET NotTarget(c) == c # target IN SelectSeq(NumericDtypeColumns(df), NotTarget)

\* WOE_Binner.obtain_categorical_cols
obtain_categorical_cols(df, target) ==
    LET NotTarget(c) == c # target IN SelectSeq(ObjectDtypeColumns(df), NotTarget)

\* WOE_Binner.__init__ : self.data is the caller's object, not a copy
NewBinner(df, target) ==
    [data                |-> "caller",
     target              |-> target,
     numerical_columns   |-> obtain_numerical_cols(df, target),
     categorical_columns |-> obtain_categorical_cols(df, target)]

\* The feature tables: a numeric column x, a categorical column c and the
\* binary target t, encoded 'Good'/'Bad' (object) or 1/0 (int64, written
\* "1"/"0" here so that keys of one dict are comparable).
LabelEncoding == {"Good", "Bad"}
IntEncoding == {"1", "0"}
CatVals == {"a", "b"}
TargetName == "t"

MaxDistinct == 10     \* woe_binner.py:68  n_unique > 10

MakeTable(enc, xs, cs, ts) ==
    [columns |-> <<"x", "c", "t">>,
     dtype   |-> [k \in {"x", "c", "t"} |->
                    IF k = "x" THEN IntDtype
                    ELSE IF k = "c" THEN ObjDtype
                    ELSE IF enc = IntEncoding THEN IntDtype ELSE ObjDtype],
     data    |-> [k \in {"x", "c", "t"} |->
                    IF k = "x" THEN xs ELSE IF k = "c" THEN cs ELSE ts]]

Returned(op, args) == [op |-> op, args |-> args, outcome |-> "returned"]
Raised(op, args, error) == [op |-> op, args |-> args, outcome |-> error]

\* the CreditScoreEngine side is not in use
EngineIdle ==
    /\ txns = <<>>
    /\ rfms = <<>>
    /\ scored = <<>>
    /\ labelIn = <<>>
    /\ labelOut = <<>>
    /\ recency = <<>>

\* the state after  binner = WOE_Binner(data=table, target='t')
InitBinner ==
    \E n \in 1..MaxRows, enc \in {LabelEncoding, IntEncoding} :
      \E xs \in [1..n -> 0..MaxVal], cs \in [1..n -> CatVals], ts \in [1..n -> enc] :
        /\ callerTable = MakeTable(enc, xs, cs, ts)
        /\ origTable = callerTable
        /\ ownTable = NoTable
        /\ self = NewBinner(callerTable, TargetName)
        /\ numBins = NoResult
        /\ catBins = NoResult
        /\ counts = NoResult
        /\ threads = <<>>
        /\ call = Returned("__init__", <<>>)
        /\ stats = NoStats
        /\ EngineIdle

\* WOE_Binner.bin_numerical_cols(columns_to_ignore, n_bins); the body never
\* reads n_bins
bin_numerical_cols(columns_to_ignore, n_bins) ==
    LET df   == SelfData
        cols == {c \in Range(self.numerical_columns) : c \notin columns_to_ignore}
        args == <<columns_to_ignore, n_bins>>
    IN /\ IF \E c \in cols : ~HasColumn(df, c)
          THEN /\ call' = Raised("bin_numerical_cols", args, "KeyError")
               /\ UNCHANGED numBins
          ELSE /\ numBins' = [c \in cols |-> Qcut(df.data[c])]
               /\ call' = Returned("bin_numerical_cols", args)
       /\ UNCHANGED <<callerTable, origTable, ownTable, self, catBins, counts, stats,
                    threads, engineVars>>

\* WOE_Binner.bin_categorical_cols(ignore_cols, **keywords): the signature
\* has no parameter besides ignore_cols, a call that passes another keyword
\* (max_distinct) is rejected before the body runs
bin_categorical_cols(ignore_cols, keywords) ==
    LET dropped == HasColumn(SelfData, "bin")
        df   == IF dropped THEN DropColumn(SelfData, "bin") ELSE SelfData
        kept == {c \in Range(self.categorical_columns) :
                    /\ HasColumn(df, c)
                    /\ ~(Cardinality(Range(df.data[c])) > MaxDistinct \/ c \in ignore_cols)}
        args == <<ignore_cols, keywords>>
    IN /\ IF DOMAIN keywords # {}
          THEN /\ call' = Raised("bin_categorical_cols", args, "TypeError")
               /\ UNCHANGED <<ownTable, self, catBins>>
          ELSE /\ IF dropped
                  THEN ownTable' = df /\ self' = [self EXCEPT !.data = "own"]
                  ELSE UNCHANGED <<ownTable, self>>
               /\ IF \E c \in Range(self.categorical_columns) : ~HasColumn(df, c)
                  THEN /\ call' = Raised("bin_categorical_cols", args, "KeyError")
                       /\ UNCHANGED catBins
                  ELSE /\ catBins' = [c \in kept |-> Unique(df.data[c])]
                       /\ call' = Returned("bin_categorical_cols", args)
       /\ UNCHANGED <<callerTable, origTable, numBins, counts, stats, threads, engineVars>>

\* the table after  self.data['bin'] = binnig  for the column c of bins
WithBin(df, bins, c) ==
    SetColumn(df, "bin", CatDtype(bins[c].categories), bins[c].values)

\* WOE_Binner.obtain_counts(bins, good_label, numeric=True), bins = numBins
obtain_counts_numeric(good_label) ==
    LET bins  == numBins
        InBins(c) == c \in DOMAIN bins
        order == SelectSeq(self.numerical_columns, InBins)
        df    == IF order = <<>> THEN SelfData
                 ELSE WithBin(SelfData, bins, order[Len(order)])
        args  == <<good_label, TRUE>>
    IN /\ numBins # NoResult
       /\ IF self.data = "caller"
          THEN callerTable' = df
          ELSE UNCHANGED callerTable
       /\ IF HasColumn(df, "bin")
          THEN /\ ownTable' = DropColumn(df, "bin")
               /\ self' = [self EXCEPT !.data = "own"]
               /\ counts' = [c \in DOMAIN bins |->
                               GroupCounts(WithBin(SelfData, bins, c), "bin", self.target)]
               /\ call' = Returned("obtain_counts", args)
          ELSE /\ call' = Raised("obtain_counts", args, "KeyError")
               /\ UNCHANGED <<ownTable, self, counts>>
       /\ UNCHANGED <<origTable, numBins, catBins, stats, threads, engineVars>>

\* WOE_Binner.obtain_counts(bins, good_label, numeric=False), bins = catBins
obtain_counts_categorical(good_label) ==
    LET bins == catBins
        args == <<good_label, FALSE>>
    IN /\ catBins # NoResult
       /\ IF \E c \in DOMAIN bins : ~HasColumn(SelfData, c)
          THEN /\ call' = Raised("obtain_counts", args, "KeyError")
               /\ UNCHANGED counts
          ELSE /\ counts' = [c \in DOMAIN bins |-> GroupCounts(SelfData, c, self.target)]
               /\ call' = Returned("obtain_counts", args)
       /\ UNCHANGED <<callerTable, origTable, ownTable, self, numBins, catBins, stats,
                    threads, engineVars>>

\* the good_label values a caller supplies
GoodLabels == LabelEncoding \cup IntEncoding

\* the n_bins values a caller requests (5 is the default)
NBinsArgs == {1, QBins}

BinNumericalCols ==
    \E ig \in SUBSET {"x"}, n_bins \in NBinsArgs : bin_numerical_cols(ig, n_bins)
\* the keywords a caller adds to bin_categorical_cols: none, or a limit on
\* the distinct values of a column
NoKeywords == <<>>
KeywordArgs == {NoKeywords, [max_distinct |-> 1]}

BinCategoricalCols ==
    \E ig \in SUBSET {"c"}, kw \in KeywordArgs : bin_categorical_cols(ig, kw)
ObtainCountsNumeric == \E g \in GoodLabels : obtain_counts_numeric(g)
ObtainCountsCategorical == \E g \in GoodLabels : obtain_counts_categorical(g)

NextBinner ==
    \/ BinNumericalCols
    \/ BinCategoricalCols
    \/ ObtainCountsNumeric
    \/ ObtainCountsCategorical

SpecBinner == InitBinner /\ [][NextBinner]_vars

----------------------------------------------------------------------------
(* The statistics functions applied to counts dicts drawn from a bounded   *)
(* set: one column "f", bins 1..n, counts 0..MaxCount, with both target    *)
(* keys or (a class absent from the whole target column) only one.         *)

MaxBins == 3        \* bins of the column of a counts dict
MaxCount == 2       \* a good or bad count is 0..MaxCount

BinnerIdle ==
    /\ callerTable = NoTable
    /\ origTable = NoTable
    /\ ownTable = NoTable
    /\ self = [data |-> "caller", target |-> TargetName,
               numerical_columns |-> <<>>, categorical_columns |-> <<>>]
    /\ numBins = NoResult
    /\ catBins = NoResult
    /\ threads = <<>>

InitWoe ==
    \E n \in 1..MaxBins, keys \in {{"Good", "Bad"}, {"Good"}, {"Bad"}} :
      \E bins \in [1..n -> [keys -> 0..MaxCount]] :
        /\ counts = [column \in {"f"} |-> bins]
        /\ stats = NoStats
        /\ call = Returned("obtain_counts", <<>>)
        /\ BinnerIdle
        /\ EngineIdle

CalculateWoe ==
    /\ stats.woe = NoResult
    /\ stats' = [stats EXCEPT !.woe = calculate_woe(counts)]
    /\ call' = Returned("calculate_woe", <<>>)
    /\ UNCHANGED <<callerTable, origTable, ownTable, self, numBins, catBins, counts,
                   threads, engineVars>>

BadProbability ==
    /\ stats.bad_prob = NoResult
    /\ IF BadProbabilityRaises(counts)
       THEN /\ call' = Raised("bad_probability", <<>>, "TypeError")
            /\ UNCHANGED stats
       ELSE /\ stats' = [stats EXCEPT !.bad_prob = bad_probability(counts)]
            /\ call' = Returned("bad_probability", <<>>)
    /\ UNCHANGED <<callerTable, origTable, ownTable, self, numBins, catBins, counts,
                   threads, engineVars>>

CalculateIvFromBins ==
    /\ stats.woe # NoResult
    /\ stats.iv = NoResult
    /\ IF IvRaises(counts, stats.woe)
       THEN /\ call' = Raised("calculate_iv_from_bins", <<>>, "KeyError")
            /\ UNCHANGED stats
       ELSE /\ stats' = [stats EXCEPT !.iv = calculate_iv_from_bins(counts, stats.woe)]
            /\ call' = Returned("calculate_iv_from_bins", <<>>)
    /\ UNCHANGED <<callerTable, origTable, ownTable, self, numBins, catBins, counts,
                   threads, engineVars>>

NextWoe ==
    \/ CalculateWoe
    \/ BadProbability
    \/ CalculateIvFromBins

SpecWoe == InitWoe /\ [][NextWoe]_vars

----------------------------------------------------------------------------
(* Claims about WOE_Binner *)

CallReturned(op) == call.op = op /\ call.outcome = "returned"

BinningCallReturned ==
    \/ CallReturned("bin_numerical_cols")
    \/ CallReturned("bin_categorical_cols")
    \/ CallReturned("obtain_counts")

\* C1: after any binning call returns, the table the caller passed to the
\* constructor has the same columns and cells as before the call; no working
\* column 'bin' is left on it.
C1_CallerTableUnchanged ==
    BinningCallReturned =>
        /\ ~HasColumn(callerTable, "bin")
        /\ callerTable = origTable

\* the bin of row i for column c in the last obtain_counts call
RowBin(c, i) ==
    IF call.args[2] THEN numBins[c].values[i] ELSE origTable.data[c][i]

RowsIn(c, b) == {i \in 1..NRows(origTable) : RowBin(c, i) = b}

\* C4: in the result of obtain_counts every bin of every column carries both
\* the good-count key and the bad-count key (0 for a class with no
\* observation, also for a class that occurs nowhere in the target), so that
\* bad_probability and calculate_iv_from_bins do not fail on a missing key.
\* Stated for a 'Good'/'Bad' target with good_label = 'Good'.
C4_BothKeysPresent ==
    (/\ CallReturned("obtain_counts")
     /\ origTable.dtype[TargetName].kind = "object"
     /\ call.args[1] = "Good")
    => /\ \A c \in DOMAIN counts : \A b \in DOMAIN counts[c] :
             {"Good", "Bad"} \subseteq DOMAIN counts[c][b]
       /\ ~BadProbabilityRaises(counts)
       /\ ~IvRaises(counts, calculate_woe(counts))

\* C5: obtain_counts(bins, good_label) reports per bin the number of rows
\* whose target equals good_label as the good count and the number of rows
\* whose target differs as the bad count, for any encoding of the target.
\* The counts are read as calculate_woe reads them (.get('Good', 0)).
C5_CountsFollowGoodLabel ==
    CallReturned("obtain_counts") =>
        \A c \in DOMAIN counts : \A b \in DOMAIN counts[c] :
            /\ GetOrZero(counts[c][b], "Good") =
                 Cardinality({i \in RowsIn(c, b) :
                                 origTable.data[TargetName][i] = call.args[1]})
            /\ GetOrZero(counts[c][b], "Bad") =
                 Cardinality({i \in RowsIn(c, b) :
                                 origTable.data[TargetName][i] # call.args[1]})

\* C6: for non-negative counts both smoothed ratios of calculate_woe are
\* strictly positive, so every bin's WOE is ln(good_ratio / bad_ratio) with
\* good_ratio = (good + 0.5)/(total_good + 0.5), bad_ratio = (bad + 0.5)/
\* (total_bad + 0.5), and the zero-guard fallback (WOE = 0) is never taken.
C6_SmoothedWoeNeverFallsBack ==
    CallReturned("calculate_woe") =>
        \A c \in DOMAIN counts : \A b \in DOMAIN counts[c] :
            LET g  == GetOrZero(counts[c][b], "Good")
                d  == GetOrZero(counts[c][b], "Bad")
                tg == TotalOf(counts[c], "Good")
                td == TotalOf(counts[c], "Bad")
                w  == stats.woe[c][b]
            IN /\ ~w.zero_guard
               /\ w.ln_of.num > 0 /\ w.ln_of.den > 0
               \* ln_of = ((g + 0.5)/(tg + 0.5)) / ((d + 0.5)/(td + 0.5))
               /\ w.ln_of.num * ((2 * tg + 1) * (2 * d + 1))
                    = w.ln_of.den * ((2 * g + 1) * (2 * td + 1))

\* a bin with no good observation in a column with no bad observation at all
C6_Witness ==
    /\ CallReturned("calculate_woe")
    /\ \E c \in DOMAIN counts : \E b \in DOMAIN counts[c] :
          /\ GetOrZero(counts[c][b], "Good") = 0
          /\ TotalOf(counts[c], "Bad") = 0
          /\ ~stats.woe[c][b].zero_guard

----------------------------------------------------------------------------
(* class CreditScoreEngine: score_rfms *)

MaxCustomers == 2   \* rows of an RFMS table
MaxMetric == 1      \* a Recency or Monetary cell is 0..MaxMetric

\* the Frequency and Std_Deviation cells of the RFMS tables
Frequencies == {1, 2}
Deviations == {0, 1}

CutBins == 5        \* credit_risk_modeler.py:99  bins=5
CutScale == 5000    \* edges are kept times 5000: 5 bins, adjustment 0.001

\* linspace(mn, mx, 6) times CutScale, the first edge lowered by 0.1% of the range
SpreadEdges(mn, mx) ==
    [i \in 1..(CutBins + 1) |->
       IF i = 1 THEN CutScale * mn - 5 * (mx - mn)
       ELSE CutScale * mn + (i - 1) * (CutScale \div CutBins) * (mx - mn)]

\* linspace(mn - 0.001 w, mn + 0.001 w, 6) times CutScale
WidenedEdges(mn, w) ==
    [i \in 1..(CutBins + 1) |-> CutScale * mn - 5 * w + (i - 1) * 2 * w]

Abs(x) == IF x < 0 THEN -x ELSE x

\* the edges without the widening of a constant column
EdgesOf_NoWidening(mn, mx) == SpreadEdges(mn, mx)

\* the edges pandas.cut(x, bins=5) computes for a column with minimum mn and
\* maximum mx, right=True: a constant column is first widened by 0.1% of |mn|
\* (by 0.001 when mn = 0) and its first edge is not lowered.
EdgesOf(mn, mx) ==
    IF mn = mx
    THEN WidenedEdges(mn, IF mn # 0 THEN Abs(mn) ELSE 1)
    ELSE SpreadEdges(mn, mx)

RECURSIVE SeqMin(_)
SeqMin(s) ==
    IF Len(s) = 1 THEN s[1]
    ELSE LET m == SeqMin(Tail(s)) IN IF s[1] < m THEN s[1] ELSE m

RECURSIVE SeqMax(_)
SeqMax(s) ==
    IF Len(s) = 1 THEN s[1]
    ELSE LET m == SeqMax(Tail(s)) IN IF s[1] > m THEN s[1] ELSE m

CutEdges(values) == EdgesOf(SeqMin(values), SeqMax(values))

\* the bin number of v: searchsorted(edges, v, side='left'), no include_lowest
CutBinOf(edges, v) == Cardinality({i \in DOMAIN edges : edges[i] < CutScale * v})

\* labels numbered from 0
DirectLabels_ZeroBased == [i \in 1..CutBins |-> i - 1]

\* labels=list(range(1, 6, 1)) : the direct scoring of Frequency and Monetary
DirectLabels == [i \in 1..CutBins |-> i]

\* the inversion forgotten
InvertedLabels_NotInverted == [i \in 1..CutBins |-> i]

\* labels=list(range(5, 0, -1)) : the inverted scoring of Recency and Std_Deviation
InvertedLabels == [i \in 1..CutBins |-> CutBins + 1 - i]

\* pd.cut(x=column, bins=5, labels=labels): a bin number of 0 or of
\* len(edges) is a missing cell, written NoScore
NoScore == 0

ScoresFor(edges, values, labels) ==
    [i \in DOMAIN values |->
       LET id == CutBinOf(edges, values[i])
       IN IF id = 0 \/ id = Len(edges) THEN NoScore ELSE labels[id]]

CutScores(values, labels) == ScoresFor(CutEdges(values), values, labels)

Column(table, name) == [i \in DOMAIN table |-> table[i][name]]

\* the weight lists callers pass, in tenths: the default [0.1, 0.2, 0.5, 0.2],
\* a list with a negative weight, a list that is too short, one that is too long
DefaultWeights == <<1, 2, 5, 2>>
WeightLists == {DefaultWeights, <<-1, 2, 5, 2>>, <<1, 2, 5>>, <<0, 0, 0, 0, 1>>}

\* the result DataFrame of score_rfms from its four score columns; RFMS_Score
\* is kept in tenths
CombineScores(recency_score, frequency_score, monetary_score, std_score, rfms_weights) ==
    [i \in DOMAIN recency_score |->
       [RecencyScore   |-> recency_score[i],
        FrequencyScore |-> frequency_score[i],
        MonetaryScore  |-> monetary_score[i],
        StdScore       |-> std_score[i],
        RFMS_Score     |-> recency_score[i] * rfms_weights[1]
                           + frequency_score[i] * rfms_weights[2]
                           + monetary_score[i] * rfms_weights[3]
                           + std_score[i] * rfms_weights[4]]]

\* CreditScoreEngine.score_rfms: the four pd.cut calls and their combination
ScoredTable(rfms_data, rfms_weights) ==
    CombineScores(CutScores(Column(rfms_data, "Recency"), InvertedLabels),
                  CutScores(Column(rfms_data, "Frequency"), DirectLabels),
                  CutScores(Column(rfms_data, "Monetary"), DirectLabels),
                  CutScores(Column(rfms_data, "Std_Deviation"), InvertedLabels),
                  rfms_weights)

NoScored == <<>>

Metrics == {"Recency", "Frequency", "Monetary", "Std_Deviation"}

\* some pd.cut result has a missing cell
HasMissingScore(rfms_data) ==
    \E m \in Metrics :
        \E v \in Range(Column(rfms_data, m)) :
            CutBinOf(CutEdges(Column(rfms_data, m)), v) \in {0, CutBins + 1}

\* the RFMS tables: one row per customer
InitScore ==
    \E n \in 1..MaxCustomers :
      \E t \in [1..n -> [Recency : 0..MaxMetric, Frequency : Frequencies,
                         Monetary : 0..MaxMetric, Std_Deviation : Deviations]] :
        /\ rfms = t
        /\ scored = NoScored
        /\ txns = <<>>
        /\ labelIn = <<>>
        /\ labelOut = <<>>
        /\ recency = <<>>
        /\ call = Returned("__init__", <<>>)
        /\ counts = NoResult
        /\ stats = NoStats
        /\ BinnerIdle

\* score_rfms(rfms, rfms_weights): rfms_weights[0..3] are indexed, nothing
\* else; a behaviour is one call on one table
score_rfms(rfms_weights) ==
    /\ call.op = "__init__"
    /\ IF HasMissingScore(rfms)
       THEN \* .astype(int) of a missing cell
            /\ call' = Raised("score_rfms", rfms_weights, "ValueError")
            /\ UNCHANGED scored
       ELSE IF Len(rfms_weights) < 4
       THEN /\ call' = Raised("score_rfms", rfms_weights, "IndexError")
            /\ UNCHANGED scored
       ELSE /\ scored' = ScoredTable(rfms, rfms_weights)
            /\ call' = Returned("score_rfms", rfms_weights)
    /\ UNCHANGED <<binnerVars, stats, txns, rfms, labelIn, labelOut, recency>>

ScoreRfms == \E w \in WeightLists : score_rfms(w)

NextScore == ScoreRfms

SpecScore == InitScore /\ [][NextScore]_vars

----------------------------------------------------------------------------
(* Claims about CreditScoreEngine.score_rfms *)

ScoreCalled == call.op = "score_rfms"

\* C7: score_rfms is direction-consistent within one table: a larger
\* Monetary (Frequency) never has a smaller MonetaryScore (FrequencyScore),
\* a larger Recency (Std_Deviation) never has a larger RecencyScore (StdScore).
C7_DirectionConsistent ==
    CallReturned("score_rfms") =>
        \A a, b \in DOMAIN rfms :
            /\ rfms[a].Monetary > rfms[b].Monetary
                 => scored[a].MonetaryScore >= scored[b].MonetaryScore
            /\ rfms[a].Frequency > rfms[b].Frequency
                 => scored[a].FrequencyScore >= scored[b].FrequencyScore
            /\ rfms[a].Recency > rfms[b].Recency
                 => scored[a].RecencyScore <= scored[b].RecencyScore
            /\ rfms[a].Std_Deviation > rfms[b].Std_Deviation
                 => scored[a].StdScore <= scored[b].StdScore

\* two customers that differ in every metric, scored strictly apart
C7_Witness ==
    /\ CallReturned("score_rfms")
    /\ \E a, b \in DOMAIN rfms :
          /\ rfms[a].Monetary > rfms[b].Monetary
          /\ scored[a].MonetaryScore > scored[b].MonetaryScore
          /\ rfms[a].Frequency > rfms[b].Frequency
          /\ scored[a].FrequencyScore > scored[b].FrequencyScore
          /\ rfms[a].Recency > rfms[b].Recency
          /\ scored[a].RecencyScore < scored[b].RecencyScore
          /\ rfms[a].Std_Deviation > rfms[b].Std_Deviation
          /\ scored[a].StdScore < scored[b].StdScore

\* C8: on every table score_rfms returns, each sub-score is one of 1..5,
\* RFMS_Score is the weighted sum of the four sub-scores and, when the four
\* weights of that sum are non-negative, lies between 1 and 5 times their sum
\* (between 1.0 and 5.0, i.e. 10 and 50 tenths, for the default weights).
C8_ScoresInRange ==
    CallReturned("score_rfms") =>
        LET w    == call.args
            sumw == w[1] + w[2] + w[3] + w[4]
        IN \A i \in DOMAIN scored :
              /\ {scored[i].RecencyScore, scored[i].FrequencyScore,
                  scored[i].MonetaryScore, scored[i].StdScore} \subseteq 1..5
              /\ scored[i].RFMS_Score =
                    w[1] * scored[i].RecencyScore + w[2] * scored[i].FrequencyScore
                    + w[3] * scored[i].MonetaryScore + w[4] * scored[i].StdScore
              /\ (\A k \in 1..4 : w[k] >= 0) =>
                    /\ 1 * sumw <= scored[i].RFMS_Score
                    /\ scored[i].RFMS_Score <= 5 * sumw
              /\ w = DefaultWeights =>
                    (10 <= scored[i].RFMS_Score /\ scored[i].RFMS_Score <= 50)

\* the default weights give one customer the lowest and one the highest score
C8_Witness ==
    /\ CallReturned("score_rfms")
    /\ call.args = DefaultWeights
    /\ \E i, j \in DOMAIN scored :
          scored[i].RFMS_Score = 10 /\ scored[j].RFMS_Score = 50

\* C9: score_rfms fails, and returns no scored table, whenever the weights
\* list has a length other than 4 (shorter or longer).
C9_WrongLengthRejected ==
    (ScoreCalled /\ Len(call.args) # 4) => call.outcome # "returned"

\* C10: score_rfms rejects the call whenever one of the four metrics has
\* fewer distinct values in the table than the 5 bins requested.
C10_DegenerateMetricRejected ==
    (/\ ScoreCalled
     /\ \E m \in Metrics : Cardinality(Range(Column(rfms, m))) < CutBins)
    => call.outcome # "returned"

IsConstant(m) == Cardinality(Range(Column(rfms, m))) = 1

\* C10 as amended: a call with at least four weights returns a scored table
\* with one row per customer however few distinct values a metric has; a
\* metric that is constant across the customers gets the middle score 3.
C10_DegenerateMetricScored ==
    (ScoreCalled /\ Len(call.args) >= 4) =>
        /\ call.outcome = "returned"
        /\ DOMAIN scored = DOMAIN rfms
        /\ \A i \in DOMAIN scored :
              /\ IsConstant("Recency") => scored[i].RecencyScore = 3
              /\ IsConstant("Frequency") => scored[i].FrequencyScore = 3
              /\ IsConstant("Monetary") => scored[i].MonetaryScore = 3
              /\ IsConstant("Std_Deviation") => scored[i].StdScore = 3

\* several customers, a constant metric and a two-valued one, scored
C10_Witness ==
    /\ CallReturned("score_rfms")
    /\ Len(rfms) >= 2
    /\ IsConstant("Monetary")
    /\ ~IsConstant("Recency")
    /\ \A i \in DOMAIN scored : scored[i].MonetaryScore = 3

----------------------------------------------------------------------------
(* class CreditScoreEngine: label_rfms_score *)

MaxScored == 4      \* rows of a scored table
MaxScore == 2       \* an RFMS_Score cell is 0..MaxScore

LabelScale == 20    \* the quantile 0.55 = 11/20: edges are kept times 20
LabelQuantiles == <<0, 11, 20>>    \* credit_risk_modeler.py:132  q=[0, 0.55, 1]

\* labels in the wrong order
LabelNames_Swapped == <<"Good", "Bad">>

\* credit_risk_modeler.py:132  labels=['Bad', 'Good']
LabelNames == <<"Bad", "Good">>

\* the three bin edges of pd.qcut(x, q=[0, 0.55, 1]) times LabelScale
LabelEdges(values) ==
    LET s == SortSeq(values, IntLE)
    IN [k \in 1..3 |-> QuantileScaled(s, LabelQuantiles[k], LabelScale)]

\* duplicates='raise' (the default): "Bin edges must be unique"
EdgesUnique(edges) == Cardinality(Range(edges)) = Len(edges)

\* the labelled cells of pd.qcut(x, q=[0, 0.55, 1], labels=['Bad', 'Good'])
QcutLabels(values) ==
    LET edges == LabelEdges(values)
    IN [i \in DOMAIN values |-> LabelNames[CutId(edges, values[i], LabelScale)]]

\* data[score_column].quantile(q=0.55), times LabelScale
Boundary(values) == QuantileScaled(SortSeq(values, IntLE), 11, LabelScale)

ScoreTable(values) ==
    [columns |-> <<"RFMS_Score">>,
     dtype   |-> [k \in {"RFMS_Score"} |-> [kind |-> "float64"]],
     data    |-> [k \in {"RFMS_Score"} |-> values]]

\* a scored table the caller holds (scored: its content, labelIn: the object)
InitLabel ==
    \E n \in 1..MaxScored :
      \E values \in [1..n -> 0..MaxScore] :
        /\ scored = ScoreTable(values)
        /\ labelIn = ScoreTable(values)
        /\ labelOut = <<>>
        /\ recency = <<>>
        /\ txns = <<>>
        /\ rfms = <<>>
        /\ call = Returned("__init__", <<>>)
        /\ counts = NoResult
        /\ stats = NoStats
        /\ BinnerIdle

\* CreditScoreEngine.label_rfms_score(data=labelIn, score_column)
label_rfms_score(score_column) ==
    LET values == labelIn.data[score_column]
    IN /\ call.op = "__init__"
       /\ IF EdgesUnique(LabelEdges(values))
          THEN /\ labelIn' = SetColumn(labelIn, "RiskLabel", CatDtype(LabelNames),
                                       QcutLabels(values))
               /\ labelOut' = [data |-> "labelIn", boundary |-> Boundary(values)]
               /\ call' = Returned("label_rfms_score", score_column)
          ELSE /\ call' = Raised("label_rfms_score", score_column, "ValueError")
               /\ UNCHANGED <<labelIn, labelOut>>
       /\ UNCHANGED <<binnerVars, stats, txns, rfms, scored, recency>>

LabelRfmsScore == label_rfms_score("RFMS_Score")

NextLabel == LabelRfmsScore

SpecLabel == InitLabel /\ [][NextLabel]_vars

----------------------------------------------------------------------------
(* Claims about CreditScoreEngine.label_rfms_score *)

LabelCalled == call.op = "label_rfms_score"

Scores == scored.data["RFMS_Score"]

Rows == DOMAIN Scores

\* The call returned a labelled table: every row carries exactly one of
\* 'Good' / 'Bad', both groups are non-empty, 'Bad' is exactly the rows at or
\* below the returned boundary, 'Good' exactly the rows above it, and the
\* boundary is the 55th percentile (linear interpolation at position
\* 0.55 (n - 1) of the sorted scores).
LabelledAtBoundary ==
    /\ call.outcome = "returned"
    /\ HasColumn(labelIn, "RiskLabel")
    /\ LET label == labelIn.data["RiskLabel"]
           b     == labelOut.boundary
           bad   == {i \in Rows : label[i] = "Bad"}
           good  == {i \in Rows : label[i] = "Good"}
           below == Cardinality({i \in Rows : LabelScale * Scores[i] < b})
           above == Cardinality({i \in Rows : LabelScale * Scores[i] > b})
       IN /\ DOMAIN label = Rows
          /\ bad \cup good = Rows
          /\ bad # {} /\ good # {}
          /\ bad = {i \in Rows : LabelScale * Scores[i] <= b}
          /\ good = {i \in Rows : LabelScale * Scores[i] > b}
          /\ b = Boundary(Scores)
          \* at most ceil(0.55 (n-1)) rows below, n-1 - floor(0.55 (n-1)) above
          /\ LabelScale * (below - 1) < 11 * (Len(Scores) - 1)
          /\ LabelScale * (above - 1) < 9 * (Len(Scores) - 1)

\* C2: for every scored table whose score column has at least 2 distinct
\* values label_rfms_score succeeds and labels the rows at the 55th percentile.
C2_LabelsWithTwoDistinctScores ==
    (LabelCalled /\ Cardinality(Range(Scores)) >= 2) => LabelledAtBoundary

BoundaryInside ==
    /\ LabelScale * SeqMin(Scores) < Boundary(Scores)
    /\ Boundary(Scores) < LabelScale * SeqMax(Scores)

\* C2 as amended: label_rfms_score succeeds and labels the rows at the 55th
\* percentile exactly when that percentile lies strictly between the smallest
\* and the largest score; otherwise it raises ValueError and adds no column.
C2_LabelsWhenBoundaryInside ==
    LabelCalled =>
        /\ BoundaryInside => LabelledAtBoundary
        /\ ~BoundaryInside => /\ call.outcome = "ValueError"
                              /\ labelIn = scored

\* three or more rows, labelled, some scores tied
C2_Witness ==
    /\ CallReturned("label_rfms_score")
    /\ BoundaryInside
    /\ Len(Scores) >= 3
    /\ Cardinality(Range(Scores)) < Len(Scores)
    /\ {"Good", "Bad"} \subseteq Range(labelIn.data["RiskLabel"])

----------------------------------------------------------------------------
(* class CreditScoreEngine: calculate_recency and calcualte_rfms *)

MaxTxns == 2        \* rows of the transaction table
MaxValue == 1       \* a transaction Value is -MaxValue..MaxValue
MaxTime == 1        \* a TransactionStartTime is the instant 0..MaxTime (in ticks)
TicksPerDay == 2    \* ticks of the clock per day

\* Timedelta.days: the whole days of a difference of instants, rounded down
TimedeltaDays(delta) == delta \div TicksPerDay

\* the difference taken the other way round
calculate_recency_Reversed(transaction_dates, latest_date) ==
    LET user_latest == SeqMax(transaction_dates)
        time_delta  == user_latest - latest_date
    IN TimedeltaDays(time_delta)

\* CreditScoreEngine.calculate_recency(transaction_dates, latest_date)
calculate_recency(transaction_dates, latest_date) ==
    LET user_latest == SeqMax(transaction_dates)
        time_delta  == latest_date - user_latest
    IN TimedeltaDays(time_delta)

\* the missing value Series.std gives for a single observation
MissingStd == [missing |-> TRUE]

\* the sample standard deviation (ddof = 1), kept as its square
\* (n sum(x^2) - sum(x)^2) / (n (n - 1))
StdOf(values) ==
    LET n  == Len(values)
        sq == [i \in DOMAIN values |-> values[i] * values[i]]
    IN IF n < 2 THEN MissingStd
       ELSE [squared |-> Rat(n * SumSeq(sq) - SumSeq(values) * SumSeq(values),
                             n * (n - 1))]

\* the missing value left in place
FillNaZero_Skipped(x) == x

\* Series.fillna(value=0) on one cell
FillNaZero(x) == IF x = MissingStd THEN [squared |-> Rat(0, 1)] ELSE x

\* the rows of the group of one customer, in table order
GroupOf(rows, customer) ==
    LET InGroup(r) == r.CustomerId = customer IN SelectSeq(rows, InGroup)

\* CreditScoreEngine.calcualte_rfms: the RFMS table, indexed by CustomerId;
\* now is the reading of the clock (latest_date is not passed)
RfmsTable(rows, now) ==
    [customer \in {rows[i].CustomerId : i \in DOMAIN rows} |->
       LET group == GroupOf(rows, customer)
       IN [Recency       |-> calculate_recency(Column(group, "TransactionStartTime"), now),
           Frequency     |-> Len(Column(group, "TransactionId")),
           Monetary      |-> SumSeq(Column(group, "Value")),
           Std_Deviation |-> FillNaZero(StdOf(Column(group, "Value")))]]

\* engine = CreditScoreEngine(transaction_data): every transaction has an
\* identifier, a customer, a value and a UTC timestamp (an ISO string with Z)
InitAggregate ==
    \E n \in 1..MaxTxns :
      \E cs \in [1..n -> 1..MaxCustomers], vs \in [1..n -> (-MaxValue)..MaxValue],
         ts \in [1..n -> 0..MaxTime] :
        /\ txns = [time_dtype |-> "object",
                   rows |-> [i \in 1..n |-> [TransactionId |-> i,
                                             CustomerId |-> cs[i],
                                             Value |-> vs[i],
                                             TransactionStartTime |-> ts[i]]]]
        /\ rfms = <<>>
        /\ scored = <<>>
        /\ labelIn = <<>>
        /\ labelOut = <<>>
        /\ recency = <<>>
        /\ call = Returned("__init__", <<>>)
        /\ counts = NoResult
        /\ stats = NoStats
        /\ BinnerIdle

\* CreditScoreEngine.calcualte_rfms(), the clock reading now
calcualte_rfms(now) ==
    /\ call.op = "__init__"
    /\ txns' = [txns EXCEPT !.time_dtype = "datetime64[ns, UTC]"]
    /\ rfms' = RfmsTable(txns.rows, now)
    /\ call' = Returned("calcualte_rfms", now)
    /\ UNCHANGED <<binnerVars, stats, scored, labelIn, labelOut, recency>>

CalcualteRfms == \E now \in 0..(MaxTime + TicksPerDay) : calcualte_rfms(now)

NextAggregate == CalcualteRfms

SpecAggregate == InitAggregate /\ [][NextAggregate]_vars

----------------------------------------------------------------------------
(* Claims about CreditScoreEngine.calcualte_rfms *)

TxnsOf(customer) == {i \in DOMAIN txns.rows : txns.rows[i].CustomerId = customer}

\* C3: calcualte_rfms returns exactly one row per distinct CustomerId, with
\* Frequency the customer's transaction count, Monetary the signed sum of its
\* Values, and Std_Deviation populated in every row and exactly 0 whenever
\* the customer has exactly one transaction.
C3_OneRowPerCustomer ==
    CallReturned("calcualte_rfms") =>
        /\ DOMAIN rfms = {txns.rows[i].CustomerId : i \in DOMAIN txns.rows}
        /\ \A customer \in DOMAIN rfms :
              /\ rfms[customer].Frequency = Cardinality(TxnsOf(customer))
              /\ rfms[customer].Monetary =
                    SumOver([i \in DOMAIN txns.rows |-> txns.rows[i].Value],
                            TxnsOf(customer))
              /\ rfms[customer].Std_Deviation # MissingStd
              /\ Cardinality(TxnsOf(customer)) = 1 =>
                    rfms[customer].Std_Deviation.squared.num = 0

\* a customer with one transaction next to a customer with a negative sum
C3_Witness ==
    /\ CallReturned("calcualte_rfms")
    /\ \E a, b \in DOMAIN rfms :
          /\ a # b
          /\ rfms[a].Frequency = 1
          /\ rfms[a].Std_Deviation.squared.num = 0
          /\ rfms[b].Monetary < 0

----------------------------------------------------------------------------
(* CreditScoreEngine.calculate_recency called with a reference time *)

\* the reference times a caller passes: from a day before the first instant
\* to a day after the last
ReferenceTimes == (-TicksPerDay)..(MaxTime + TicksPerDay)

\* the Series of transaction dates of one user (UTC instants, none missing)
DatesOf(table) == Column(table.rows, "TransactionStartTime")

InitRecency ==
    \E n \in 1..MaxTxns :
      \E ts \in [1..n -> 0..MaxTime] :
        /\ txns = [time_dtype |-> "datetime64[ns, UTC]",
                   rows |-> [i \in 1..n |-> [TransactionStartTime |-> ts[i]]]]
        /\ rfms = <<>>
        /\ scored = <<>>
        /\ labelIn = <<>>
        /\ labelOut = <<>>
        /\ recency = <<>>
        /\ call = Returned("__init__", <<>>)
        /\ counts = NoResult
        /\ stats = NoStats
        /\ BinnerIdle

\* CreditScoreEngine.calculate_recency(dates, latest_date) for a reference
\* time not passed before; the result is kept per reference time
CalculateRecency ==
    \E latest_date \in ReferenceTimes \ DOMAIN recency :
        /\ recency' = [t \in DOMAIN recency \cup {latest_date} |->
                          IF t = latest_date
                          THEN calculate_recency(DatesOf(txns), latest_date)
                          ELSE recency[t]]
        /\ call' = Returned("calculate_recency", latest_date)
        /\ UNCHANGED <<binnerVars, stats, txns, rfms, scored, labelIn, labelOut>>

NextRecency == CalculateRecency

SpecRecency == InitRecency /\ [][NextRecency]_vars

----------------------------------------------------------------------------
(* Claims about CreditScoreEngine.calculate_recency *)

\* C11: calculate_recency is monotonic in the reference time: for the same
\* transaction dates and reference times t1 < t2, the recency computed with
\* t2 is greater than or equal to the recency computed with t1.
C11_RecencyMonotonic ==
    \A t1, t2 \in DOMAIN recency :
        t1 < t2 => recency[t1] <= recency[t2]

\* two reference times on either side of the latest transaction, with
\* different recencies
C11_Witness ==
    \E t1, t2 \in DOMAIN recency :
        /\ t1 < SeqMax(DatesOf(txns))
        /\ SeqMax(DatesOf(txns)) < t2
        /\ recency[t1] < recency[t2]

\* a difference of instants in whole days, the fraction cut off toward zero
TruncatedDays(delta) ==
    IF delta >= 0 THEN delta \div TicksPerDay ELSE -((-delta) \div TicksPerDay)

\* C12: calculate_recency returns reference time minus latest transaction in
\* whole days with the fractional day truncated toward zero, for every
\* reference time, also one that precedes the latest transaction.
C12_TruncatesTowardZero ==
    \A t \in DOMAIN recency :
        recency[t] = TruncatedDays(t - SeqMax(DatesOf(txns)))

----------------------------------------------------------------------------
(* Claims about WOE_Binner.bin_numerical_cols and bin_categorical_cols *)

\* the intervals the rows of a binned column were assigned to
IntervalsUsed(binned) == Range(binned.values) \ {NaN}

\* C13: for every numeric column not in the ignore list and every requested
\* n_bins, bin_numerical_cols assigns each non-missing row to exactly one
\* quantile-based interval and uses at most n_bins distinct intervals,
\* collapsing to fewer intervals (never failing) when quantile edges coincide.
C13_AtMostNBinsIntervals ==
    call.op = "bin_numerical_cols" =>
        /\ call.outcome = "returned"
        /\ DOMAIN numBins = Range(self.numerical_columns) \ call.args[1]
        /\ \A c \in DOMAIN numBins :
              /\ \A i \in DOMAIN numBins[c].values :
                    numBins[c].values[i] \in Range(numBins[c].categories)
              /\ Cardinality(IntervalsUsed(numBins[c])) <= call.args[2]

\* the limit on distinct values in force in the last bin_categorical_cols call
DistinctLimit ==
    IF "max_distinct" \in DOMAIN call.args[2]
    THEN call.args[2].max_distinct ELSE MaxDistinct

\* C14: bin_categorical_cols returns an entry for a categorical column if and
\* only if the column is not in the ignore list and has at most max_distinct
\* distinct values (a caller-supplied limit, default 10); the bin list of
\* such a column holds each distinct observed value exactly once and nothing
\* else, and columns exceeding the limit are absent.
C14_EntryIffWithinLimit ==
    call.op = "bin_categorical_cols" =>
        /\ call.outcome = "returned"
        /\ \A c \in Range(self.categorical_columns) :
              c \in DOMAIN catBins <=>
                 /\ c \notin call.args[1]
                 /\ Cardinality(Range(SelfData.data[c])) <= DistinctLimit
        /\ \A c \in DOMAIN catBins :
              /\ Range(catBins[c]) = Range(SelfData.data[c])
              /\ Len(catBins[c]) = Cardinality(Range(catBins[c]))

----------------------------------------------------------------------------
(* Claims about bad_probability and calculate_iv_from_bins *)

\* the bins of the counts input, as <<column, bin>>
CountedBins == {cb \in (DOMAIN counts) \X (1..MaxBins) : cb[2] \in DOMAIN counts[cb[1]]}

\* C15: for every bin of every column in a counts input, bad_probability
\* returns bad_count / (good_count + bad_count), a value in [0,1], and returns
\* 0 when the bin has no observations instead of dividing by zero.
C15_BadProbabilityPerBin ==
    call.op = "bad_probability" =>
        /\ call.outcome = "returned"
        /\ \A cb \in CountedBins :
              LET good == GetOrZero(counts[cb[1]][cb[2]], "Good")
                  bad  == GetOrZero(counts[cb[1]][cb[2]], "Bad")
                  p    == stats.bad_prob[cb[1]][cb[2]]
              IN /\ p.den > 0
                 /\ 0 <= p.num /\ p.num <= p.den
                 /\ IF good + bad = 0 THEN p.num = 0
                    ELSE p.num * (good + bad) = bad * p.den

\* the column totals of a counts input
TotalGood(c) == TotalOf(counts[c], "Good")
TotalBad(c) == TotalOf(counts[c], "Bad")

\* good/total_good - bad/total_bad of a bin equals the rational r (a share
\* being 0 when its total is 0)
IsShareDifference(r, good, bad, total_good, total_bad) ==
    LET tg == IF total_good > 0 THEN total_good ELSE 1
        tb == IF total_bad > 0 THEN total_bad ELSE 1
        g  == IF total_good > 0 THEN good ELSE 0
        b  == IF total_bad > 0 THEN bad ELSE 0
    IN /\ r.den # 0
       /\ r.num * (tg * tb) = (g * tb - b * tg) * r.den

\* every bin of the column has the same good share as bad share
NoDiscrimination(c) ==
    \A b \in DOMAIN counts[c] :
        GetOrZero(counts[c][b], "Good") * TotalBad(c)
            = GetOrZero(counts[c][b], "Bad") * TotalGood(c)

\* C16: calculate_iv_from_bins returns, per column, the sum over bins of
\* (good_count/total_good - bad_count/total_bad) x WOE_bin, a share being 0
\* when its total is 0; so for a column whose bins all have the same good
\* share as bad share every term, hence the Information Value, is 0 whatever
\* the WOE values computed by calculate_woe are.
C16_IvIsShareDifferenceTimesWoe ==
    CallReturned("calculate_iv_from_bins") =>
        \A cb \in CountedBins :
            LET c    == cb[1]
                term == stats.iv[c][cb[2]]
            IN /\ IsShareDifference(term.share_diff,
                                    GetOrZero(counts[c][cb[2]], "Good"),
                                    GetOrZero(counts[c][cb[2]], "Bad"),
                                    TotalGood(c), TotalBad(c))
               /\ term.woe = stats.woe[c][cb[2]]
               /\ (TotalGood(c) > 0 /\ TotalBad(c) > 0 /\ NoDiscrimination(c))
                     => term.share_diff.num = 0

\* a column without discrimination, observations of both classes, and a WOE
\* that is not 0 in some bin
C16_Witness ==
    /\ CallReturned("calculate_iv_from_bins")
    /\ \E c \in DOMAIN counts :
          /\ TotalGood(c) > 0 /\ TotalBad(c) > 0
          /\ NoDiscrimination(c)
          /\ Cardinality(DOMAIN counts[c]) >= 2
          /\ \E b \in DOMAIN counts[c] :
                stats.woe[c][b].ln_of.num # stats.woe[c][b].ln_of.den

----------------------------------------------------------------------------
(* Two threads calling obtain_counts(bins, good_label, numeric=True) on one *)
(* WOE_Binner instance, each for the bins of one numeric column.  A step is *)
(* one statement of the method: the write of the working column (line 92),  *)
(* the grouping (line 95) and the drop that rebinds self.data (line 101).   *)
(* Every statement reaches the table through self.data at the time it runs. *)

Threads == {1, 2}
ThreadColumn == <<"x", "y">>     \* the column whose bins thread i passes
BinaryVals == {0, 1}             \* the cells of the column y

\* a feature table with two numeric columns and a 'Good'/'Bad' target
TwoFeatureTable(xs, ys, ts) ==
    [columns |-> <<"x", "y", "t">>,
     dtype   |-> [k \in {"x", "y", "t"} |-> IF k = "t" THEN ObjDtype ELSE IntDtype],
     data    |-> [k \in {"x", "y", "t"} |->
                    IF k = "x" THEN xs ELSE IF k = "y" THEN ys ELSE ts]]

\* binner = WOE_Binner(table, 't'); bins = binner.bin_numerical_cols(); then
\* thread i is started on binner.obtain_counts({column i: bins[column i]}, 'Good')
InitThreads ==
    \E n \in 1..MaxRows :
      \E xs \in [1..n -> 0..MaxVal], ys \in [1..n -> BinaryVals],
         ts \in [1..n -> LabelEncoding] :
        /\ callerTable = TwoFeatureTable(xs, ys, ts)
        /\ origTable = callerTable
        /\ ownTable = NoTable
        /\ self = NewBinner(callerTable, TargetName)
        /\ numBins = [c \in {"x", "y"} |-> Qcut(callerTable.data[c])]
        /\ catBins = NoResult
        /\ counts = NoResult
        /\ threads = [t \in Threads |-> [pc |-> "write", column |-> ThreadColumn[t],
                                         counts |-> NoResult]]
        /\ call = Returned("bin_numerical_cols", <<{}, QBins>>)
        /\ stats = NoStats
        /\ EngineIdle

\* line 92  self.data['bin'] = binnig : in place, on the object self.data
\* refers to now
ThreadWrite(t) ==
    LET df == WithBin(SelfData, numBins, threads[t].column)
    IN /\ threads[t].pc = "write"
       /\ IF self.data = "caller"
          THEN callerTable' = df /\ UNCHANGED ownTable
          ELSE ownTable' = df /\ UNCHANGED callerTable
       /\ threads' = [threads EXCEPT ![t].pc = "group"]
       /\ UNCHANGED <<origTable, self, numBins, catBins, counts, stats, call, engineVars>>

\* grouping by the column named 'target' instead of the working column
GroupedByWorkingColumn_ByTarget(df, target) == GroupCounts(df, target, target)

\* line 95  self.data.groupby('bin')[self.target].value_counts().unstack(...)
GroupedByWorkingColumn(df, target) == GroupCounts(df, "bin", target)

\* lines 95-98: group the table self.data refers to now; KeyError 'bin' if
\* that table has no working column
ThreadGroup(t) ==
    /\ threads[t].pc = "group"
    /\ threads' = [threads EXCEPT ![t] =
          IF HasColumn(SelfData, "bin")
          THEN [@ EXCEPT !.pc = "drop",
                         !.counts = [c \in {threads[t].column} |->
                                        GroupedByWorkingColumn(SelfData, self.target)]]
          ELSE [@ EXCEPT !.pc = "KeyError"]]
    /\ UNCHANGED <<callerTable, origTable, ownTable, self, numBins, catBins, counts,
                   stats, call, engineVars>>

\* line 101  self.data = self.data.drop(columns=['bin']) : a new object,
\* self.data rebound to it; KeyError if there is no working column to drop
ThreadDrop(t) ==
    /\ threads[t].pc = "drop"
    /\ IF HasColumn(SelfData, "bin")
       THEN /\ ownTable' = DropColumn(SelfData, "bin")
            /\ self' = [self EXCEPT !.data = "own"]
            /\ threads' = [threads EXCEPT ![t].pc = "returned"]
       ELSE /\ threads' = [threads EXCEPT ![t].pc = "KeyError"]
            /\ UNCHANGED <<ownTable, self>>
    /\ UNCHANGED <<callerTable, origTable, numBins, catBins, counts, stats, call,
                   engineVars>>

NextThreads ==
    \E t \in Threads :
        \/ ThreadWrite(t)
        \/ ThreadGroup(t)
        \/ ThreadDrop(t)

SpecThreads == InitThreads /\ [][NextThreads]_vars

----------------------------------------------------------------------------
(* Claims about concurrent obtain_counts calls *)

\* the counts of the rows of the table grouped by the bins of column c
CountsByBinsOf(c) ==
    GroupCounts(WithBin(origTable, numBins, c), "bin", TargetName)

Other(t) == CHOOSE u \in Threads : u # t

HasCounted(t) == threads[t].pc \in {"drop", "returned"}

\* thread t holds, for its own column, the counts of the other column's bins
CountedOtherColumn(t) ==
    /\ HasCounted(t)
    /\ threads[t].counts[threads[t].column] = CountsByBinsOf(threads[Other(t)].column)
    /\ threads[t].counts[threads[t].column] # CountsByBinsOf(threads[t].column)

\* C17: two obtain_counts(numeric=True) calls running on one instance in
\* different threads are unsafe: a call may group by the working column the
\* other call wrote, so that the counts it reports for its column are those
\* of the other column's bin assignment, or fail with KeyError because the
\* other call has already removed the working column.  The invariant bounds
\* the interference: reported counts are those of one of the two bin
\* assignments, and a call fails only after the other one has returned.
C17_InterferenceBetweenThreads ==
    \A t \in Threads :
        /\ HasCounted(t) =>
              /\ DOMAIN threads[t].counts = {threads[t].column}
              /\ threads[t].counts[threads[t].column] \in
                    {CountsByBinsOf(threads[t].column),
                     CountsByBinsOf(threads[Other(t)].column)}
        /\ threads[t].pc = "KeyError" => threads[Other(t)].pc = "returned"

\* one call has returned the counts of the other column's bins and the other
\* call has failed on the removed working column
C17_Witness ==
    \E t \in Threads :
        /\ threads[t].pc = "returned"
        /\ CountedOtherColumn(t)
        /\ threads[Other(t)].pc = "KeyError"

----------------------------------------------------------------------------
(* Claims about the state of a WOE_Binner instance *)

\* C18: after any sequence of WOE_Binner method calls the instance still
\* refers to the very table object and target name it was constructed with
\* and its numeric/categorical column lists are unchanged; the methods being
\* pure functions of their arguments and that state, a binning call repeated
\* later with the same arguments returns the result it would have returned
\* right after construction.
C18_InstanceStateImmutable ==
    /\ self = NewBinner(origTable, TargetName)
    /\ CallReturned("bin_numerical_cols") =>
          numBins = [c \in Range(obtain_numerical_cols(origTable, TargetName))
                             \ call.args[1] |-> Qcut(origTable.data[c])]
    /\ CallReturned("bin_categorical_cols") =>
          \A c \in DOMAIN catBins : catBins[c] = Unique(origTable.data[c])

----------------------------------------------------------------------------
(* WOE_Binner.get_plotting_data and the pipeline that feeds it *)

\* the bins get_plotting_data iterates over: Series.unique() of the binned
\* column (order of first appearance, a missing cell included) for a numeric
\* column, the list of values for a categorical one
PlotBins(bins_dict, column, numeric) ==
    IF numeric THEN Unique(bins_dict[column].values) ELSE bins_dict[column]

\* the lookups counts[column][bin]['Good'], counts[column][bin]['Bad'],
\* bad_probs[column][bin] and woe_dict[column][bin] raise KeyError
PlottingRaises(bins_dict, cnts, bad_probs, woe_dict, column, numeric) ==
    \E b \in Range(PlotBins(bins_dict, column, numeric)) :
        \/ b \notin DOMAIN cnts[column]
        \/ ~({"Good", "Bad"} \subseteq DOMAIN cnts[column][b])
        \/ b \notin DOMAIN bad_probs[column]
        \/ b \notin DOMAIN woe_dict[column]

\* WOE_Binner.get_plotting_data(...), where it does not raise: the rows of
\* the returned DataFrame
get_plotting_data(bins_dict, cnts, bad_probs, woe_dict, column, numeric) ==
    LET bins == PlotBins(bins_dict, column, numeric)
    IN [i \in DOMAIN bins |->
          [bins            |-> bins[i],
           good_count      |-> cnts[column][bins[i]]["Good"],
           bad_count       |-> cnts[column][bins[i]]["Bad"],
           bad_probability |-> bad_probs[column][bins[i]],
           woe             |-> woe_dict[column][bins[i]]]]

\* the pipeline ran on numeric bins
PipelineNumeric == numBins # NoResult

PipelineBins == IF PipelineNumeric THEN numBins ELSE catBins

\* step 1: bins = binner.bin_numerical_cols() or binner.bin_categorical_cols()
PipelineBin ==
    /\ call.op = "__init__"
    /\ \/ bin_numerical_cols({}, QBins)
       \/ bin_categorical_cols({}, NoKeywords)

\* step 2: counts = binner.obtain_counts(bins, good_label, numeric)
PipelineCount ==
    \/ CallReturned("bin_numerical_cols") /\ obtain_counts_numeric("Good")
    \/ CallReturned("bin_categorical_cols") /\ obtain_counts_categorical("Good")

\* step 3: bad_probs = binner.bad_probability(counts)
PipelineBadProbability == CallReturned("obtain_counts") /\ BadProbability

\* step 4: woe = binner.calculate_woe(counts)
PipelineWoe == CallReturned("bad_probability") /\ CalculateWoe

\* step 5: WOE_Binner.get_plotting_data(bins, counts, bad_probs, woe, column, numeric)
GetPlottingData ==
    /\ CallReturned("calculate_woe")
    /\ \E column \in DOMAIN PipelineBins :
          LET args == <<column, PipelineNumeric>>
          IN IF PlottingRaises(PipelineBins, counts, stats.bad_prob, stats.woe,
                               column, PipelineNumeric)
             THEN /\ call' = Raised("get_plotting_data", args, "KeyError")
                  /\ UNCHANGED stats
             ELSE /\ stats' = [stats EXCEPT !.plot =
                                  get_plotting_data(PipelineBins, counts, stats.bad_prob,
                                                    stats.woe, column, PipelineNumeric)]
                  /\ call' = Returned("get_plotting_data", args)
    /\ UNCHANGED <<binnerVars, engineVars>>

NextPlot ==
    \/ PipelineBin
    \/ PipelineCount
    \/ PipelineBadProbability
    \/ PipelineWoe
    \/ GetPlottingData

SpecPlot == InitBinner /\ [][NextPlot]_vars

----------------------------------------------------------------------------
(* Claims about get_plotting_data *)

\* the bins of the plotted column in the order the rows of the table meet them
DiscoveredBins ==
    IF call.args[2] THEN Unique(numBins[call.args[1]].values)
    ELSE Unique(origTable.data[call.args[1]])

\* C19: for every column that was binned and then passed through
\* obtain_counts, bad_probability and calculate_woe on the same table,
\* get_plotting_data succeeds and returns one row per bin in the order the
\* bins were discovered in the data, row i holding the good count, bad count,
\* bad probability and WOE of bin i.
C19_PlottingRowsPerDiscoveredBin ==
    call.op = "get_plotting_data" =>
        /\ call.outcome = "returned"
        /\ Len(stats.plot) = Len(DiscoveredBins)
        /\ \A i \in DOMAIN stats.plot :
              LET row == stats.plot[i]
                  c   == call.args[1]
              IN /\ row.bins = DiscoveredBins[i]
                 /\ row.good_count = Cardinality({r \in RowsIn(c, row.bins) :
                                          origTable.data[TargetName][r] = "Good"})
                 /\ row.bad_count = Cardinality({r \in RowsIn(c, row.bins) :
                                          origTable.data[TargetName][r] = "Bad"})
                 /\ row.bad_probability = stats.bad_prob[c][row.bins]
                 /\ row.woe = stats.woe[c][row.bins]

----------------------------------------------------------------------------
(* Claims about the frame of label_rfms_score *)

\* C20: label_rfms_score returns a new table that carries the labels in a new
\* 'RiskLabel' column and leaves the table passed in by the caller unchanged:
\* the input gets no 'RiskLabel' column and the returned table is a different
\* object.
C20_LabelLeavesInputUnchanged ==
    CallReturned("label_rfms_score") =>
        /\ labelIn = scored
        /\ ~HasColumn(labelIn, "RiskLabel")
        /\ labelOut.data # "labelIn"

----------------------------------------------------------------------------
(* Claims about the sign of the Information Value terms *)

\* the sign of a rational with a positive denominator, and of the logarithm
\* of a positive ratio
SignOfRat(r) == IF r.num * r.den > 0 THEN 1 ELSE IF r.num = 0 THEN 0 ELSE -1
SignOfLn(r) == IF r.num > r.den THEN 1 ELSE IF r.num = r.den THEN 0 ELSE -1

\* C21: for counts with positive total_good and total_bad every bin's
\* contribution to the Information Value is non-negative: the sign of the
\* smoothed WOE computed by calculate_woe never opposes the sign of the
\* unsmoothed share difference used by calculate_iv_from_bins, hence the IV
\* of every column is >= 0.
C21_IvTermsNonNegative ==
    CallReturned("calculate_iv_from_bins") =>
        \A cb \in CountedBins :
            (TotalGood(cb[1]) > 0 /\ TotalBad(cb[1]) > 0) =>
                LET term == stats.iv[cb[1]][cb[2]]
                IN SignOfRat(term.share_diff) * SignOfLn(term.woe.ln_of) >= 0

----------------------------------------------------------------------------
(* Several WOE_Binner instances constructed, one after the other, on the    *)
(* table the caller holds                                                   *)

\* binner = WOE_Binner(data=table, target='t') on the caller's table as it is
\* now; self is the instance the caller goes on with
Construct ==
    /\ self' = NewBinner(callerTable, TargetName)
    /\ ownTable' = NoTable
    /\ call' = Returned("__init__", <<>>)
    /\ UNCHANGED <<callerTable, origTable, numBins, catBins, counts, stats, threads,
                   engineVars>>

NextInstances ==
    \/ Construct
    \/ BinNumericalCols
    \/ BinCategoricalCols
    \/ ObtainCountsNumeric
    \/ ObtainCountsCategorical

SpecInstances == InitBinner /\ [][NextInstances]_vars

----------------------------------------------------------------------------
(* Claims about the column lists of an instance *)

\* C22: after any sequence of operations (constructing WOE_Binner instances
\* on a table, bin_numerical_cols, bin_categorical_cols, obtain_counts) every
\* name in an instance's numerical_columns and categorical_columns is a
\* column of the instance's current table and is not the target, so that
\* bin_numerical_cols and bin_categorical_cols never fail on a missing
\* column; also for an instance constructed on a table that an earlier
\* counting call of another instance has worked on.
C22_ColumnListsWithinTable ==
    /\ \A name \in Range(self.numerical_columns) \cup Range(self.categorical_columns) :
          /\ HasColumn(SelfData, name)
          /\ name # self.target
    /\ call.op \in {"bin_numerical_cols", "bin_categorical_cols"} =>
          call.outcome # "KeyError"

====
